---- MODULE Spec2Model ----
(***************************************************************************)
(* A model of decompose.py: attribute closure, cover reduction, key        *)
(* finding, 3NF synthesis and recursive BCNF decomposition of a schema     *)
(* (attributes, functional dependencies).                                  *)
(***************************************************************************)
EXTENDS Integers, Sequences, FiniteSets, TLC

\* The attribute names schemas are drawn from, in sort order.
AttrSeq == <<"A", "B", "C", "D">>

\* The largest schema an input holds: attributes plus functional dependencies.
MaxSize == 6

\* The deepest call stack the interpreter allows before RecursionError.
MaxDepth == 6

VARIABLES
    attributes,                 \* input: the attribute list, as a set
    functional_dependencies,    \* input: the raw FD records, in order
    pc,                         \* position of the program
    caller,                     \* who called _find_key
    closure_in,                 \* argument of the last _closure call
    closure_out,                \* its result
    cover,                      \* solve_3nf's cover / _minimal_cover's result
    relation_sets,              \* solve_3nf's relation_sets after step 1
    key_fds,                    \* _find_key's fds argument
    key,                        \* _find_key's key
    todo,                       \* attributes the shrink pass has yet to visit
    result_3nf,                 \* what solve_3nf returned
    stack,                      \* active calls of _bcnf_decompose
    leaves,                     \* relations returned so far by finished calls
    result_bcnf                 \* what solve_bcnf returned

vars == <<attributes, functional_dependencies, pc, caller, closure_in,
          closure_out, cover, relation_sets, key_fds, key, todo, result_3nf,
          stack, leaves, result_bcnf>>

----------------------------------------------------------------------------
\* Sequence helpers (list operations of the source).

Range(s) == {s[i] : i \in 1..Len(s)}

\* fds[:i] + fds[i + 1:] and fds.pop(i), 1-based.
RemoveAt(s, i) == SubSeq(s, 1, i - 1) \o SubSeq(s, i + 1, Len(s))

----------------------------------------------------------------------------
\* Input records over an attribute list, before validation: a left attribute
\* set (possibly empty) and a right attribute list of length 0 or 1, the right
\* attribute possibly a member of the left side.  Names outside the attribute
\* list are not drawn.

RawFDs(attrs) == [left : SUBSET attrs, right : {<<>>} \cup {<<a>> : a \in attrs}]

\* _validate_input: True when no ValueError is raised.
_validate_input(attrs, fds) ==
    /\ attrs # {}
    /\ \A i \in 1..Len(fds) :
        /\ fds[i].left # {}
        /\ fds[i].right # <<>>
        /\ Len(fds[i].right) = 1
        /\ \A a \in fds[i].left \cup Range(fds[i].right) : a \in attrs

\* _normalize_fds: left becomes a set, right the first (only) right attribute.
_normalize_fds(fds) ==
    [i \in 1..Len(fds) |-> [left |-> fds[i].left, right |-> fds[i].right[1]]]

----------------------------------------------------------------------------
\* _closure: repeated scans of fds in list order until a scan adds nothing.
\* Each repeated scan follows one that added an attribute, so the loop ends.

RECURSIVE ClosureScan(_, _, _)
\* One run of "for fd in fds" from index i: <<closure, changed>>.
ClosureScan(closure, fds, i) ==
    IF i > Len(fds) THEN <<closure, FALSE>>
    ELSE IF fds[i].left \subseteq closure /\ fds[i].right \notin closure
         THEN <<ClosureScan(closure \cup {fds[i].right}, fds, i + 1)[1], TRUE>>
         ELSE ClosureScan(closure, fds, i + 1)

\* A fixed point that stops after the first scan.
ClosureLoopOneScan(closure, fds) == ClosureScan(closure, fds, 1)[1]

RECURSIVE ClosureLoop(_, _)
ClosureLoop(closure, fds) ==
    LET r == ClosureScan(closure, fds, 1)
    IN  IF r[2] THEN ClosureLoop(r[1], fds) ELSE r[1]

_closure(attrs, fds) == ClosureLoop(attrs, fds)

----------------------------------------------------------------------------
\* _minimal_cover: one forward pass that deletes an FD as soon as the others
\* currently in the list imply it; left sides are never reduced.

RECURSIVE MinimalCoverSkip(_, _)
\* A pass that advances the index after a deletion too.
MinimalCoverSkip(fds, i) ==
    IF i > Len(fds) THEN fds
    ELSE LET fd == fds[i]
             other_fds == RemoveAt(fds, i)
         IN  IF fd.right \in _closure(fd.left, other_fds)
             THEN MinimalCoverSkip(other_fds, i + 1)
             ELSE MinimalCoverSkip(fds, i + 1)

RECURSIVE MinimalCoverSelf(_, _)
\* A pass that tests each FD against the whole list, itself included.
MinimalCoverSelf(fds, i) ==
    IF i > Len(fds) THEN fds
    ELSE LET fd == fds[i]
         IN  IF fd.right \in _closure(fd.left, fds)
             THEN MinimalCoverSelf(RemoveAt(fds, i), i)
             ELSE MinimalCoverSelf(fds, i + 1)

RECURSIVE MinimalCoverLoop(_, _)
MinimalCoverLoop(fds, i) ==
    IF i > Len(fds) THEN fds
    ELSE LET fd == fds[i]
             other_fds == RemoveAt(fds, i)
         IN  IF fd.right \in _closure(fd.left, other_fds)
             THEN MinimalCoverLoop(other_fds, i)
             ELSE MinimalCoverLoop(fds, i + 1)

_minimal_cover(fds) == MinimalCoverLoop(fds, 1)

----------------------------------------------------------------------------
\* Output format: sorted(list(rel)) and result.sort() on lists of strings.

AttrOrd(a) == CHOOSE i \in 1..Len(AttrSeq) : AttrSeq[i] = a

RECURSIVE SortedAttrs(_)
\* sorted(list(rel))
SortedAttrs(rel) ==
    IF rel = {} THEN <<>>
    ELSE LET m == CHOOSE x \in rel : \A y \in rel : AttrOrd(x) <= AttrOrd(y)
         IN  <<m>> \o SortedAttrs(rel \ {m})

RECURSIVE ListLess(_, _)
\* Python's s < t on lists of strings.
ListLess(s, t) ==
    IF s = <<>> THEN t # <<>>
    ELSE IF t = <<>> THEN FALSE
    ELSE IF Head(s) = Head(t) THEN ListLess(Tail(s), Tail(t))
    ELSE AttrOrd(Head(s)) < AttrOrd(Head(t))

RECURSIVE InsertSorted(_, _)
\* x placed after every element of the sorted list s that is not greater.
InsertSorted(s, x) ==
    IF s = <<>> THEN <<x>>
    ELSE IF ListLess(x, Head(s)) THEN <<x>> \o s
    ELSE <<Head(s)>> \o InsertSorted(Tail(s), x)

RECURSIVE SortLists(_)
\* result.sort(): a stable ascending sort.
SortLists(s) ==
    IF s = <<>> THEN <<>>
    ELSE InsertSorted(SortLists(SubSeq(s, 1, Len(s) - 1)), s[Len(s)])

\* [sorted(list(rel)) for rel in relation_sets] followed by result.sort().
FormatResult(relation_sets_) ==
    SortLists([i \in 1..Len(relation_sets_) |-> SortedAttrs(relation_sets_[i])])

----------------------------------------------------------------------------
\* _find_key, step by step. next(iter(s)) on a set of strings yields whichever
\* element the hash order puts first, and list(key) lists the key in hash
\* order; string hashes differ from one interpreter run to the next, so every
\* element and every order can occur.

\* key = attrs_set - right_attrs, before the fallback.
KeySeed(attrs_set, fds) == attrs_set \ {fds[i].right : i \in 1..Len(fds)}

\* The test of the grow loop: key is not yet a superkey.
NotSuperkey(key_, attrs_set, fds) == _closure(key_, fds) # attrs_set

\* The shrink test that never removes an attribute.
ShrinkNever(key_, a, attrs_set, fds) == key_

\* One iteration of the shrink loop on attribute a.
ShrinkOne(key_, a, attrs_set, fds) ==
    IF _closure(key_ \ {a}, fds) = attrs_set THEN key_ \ {a} ELSE key_

----------------------------------------------------------------------------
\* solve_3nf.

RECURSIVE Step1(_, _, _, _)
\* Step 1: one relation per cover FD, first occurrences only.
Step1(cover_, i, relation_sets_, attrs_set) ==
    IF i > Len(cover_) THEN relation_sets_
    ELSE LET rel == (cover_[i].left \cup {cover_[i].right}) \cap attrs_set
         IN  IF rel \in Range(relation_sets_)
             THEN Step1(cover_, i + 1, relation_sets_, attrs_set)
             ELSE Step1(cover_, i + 1, Append(relation_sets_, rel), attrs_set)

\* A step 2 that never adds the key.
Step2NoKey(relation_sets_, key_) == relation_sets_

\* Step 2: the key becomes a relation unless some relation contains it.
Step2(relation_sets_, key_) ==
    IF \E i \in 1..Len(relation_sets_) : key_ \subseteq relation_sets_[i]
    THEN relation_sets_
    ELSE Append(relation_sets_, key_)

RECURSIVE Step3(_, _)
\* Step 3: drop each relation contained in another one of the current list.
Step3(relation_sets_, i) ==
    IF i > Len(relation_sets_) THEN relation_sets_
    ELSE IF \E j \in 1..Len(relation_sets_) :
                j # i /\ relation_sets_[i] \subseteq relation_sets_[j]
         THEN Step3(RemoveAt(relation_sets_, i), i)
         ELSE Step3(relation_sets_, i + 1)

----------------------------------------------------------------------------
\* _bcnf_decompose and solve_bcnf.

\* The FDs of fds that lie inside attrs_set, in order.
RelevantFDs(attrs_set, fds) ==
    SelectSeq(fds, LAMBDA fd : fd.left \subseteq attrs_set /\ fd.right \in attrs_set)

\* A scan that stops at the first relevant FD, violating or not.
ViolatingFirstOnly(attrs_set, relevant_fds) ==
    IF relevant_fds # <<>>
       /\ ~(attrs_set \subseteq _closure(relevant_fds[1].left, relevant_fds))
    THEN 1 ELSE 0

\* Index of the first FD whose left side is no superkey of attrs_set; 0 when
\* there is none (violating_fd is None).
ViolatingFD(attrs_set, relevant_fds) ==
    LET V == {i \in 1..Len(relevant_fds) :
                ~(attrs_set \subseteq _closure(relevant_fds[i].left, relevant_fds))}
    IN  IF V = {} THEN 0 ELSE CHOOSE i \in V : \A j \in V : i <= j

\* R1 = X+ (within attrs_set).
SplitR1(attrs_set, X, relevant_fds) == _closure(X, relevant_fds) \cap attrs_set

\* R2 = R - (X+ - X).
SplitR2(attrs_set, X, X_plus) == attrs_set \ (X_plus \ X)

\* A call that has just been entered.
Frame(attrs_set) == [attrs |-> attrs_set, stage |-> "enter", R2 |-> {}]

RECURSIVE Unwind(_)
\* The call stack after the top call's callee returned: a caller waiting for
\* res1 goes on to call itself on R2, a caller waiting for res2 returns too.
Unwind(s) ==
    IF s = <<>> THEN <<>>
    ELSE LET t == s[Len(s)]
         IN  IF t.stage = "res1"
             THEN [s EXCEPT ![Len(s)].stage = "res2"] \o <<Frame(t.R2)>>
             ELSE Unwind(SubSeq(s, 1, Len(s) - 1))

RECURSIVE Unique(_)
\* solve_bcnf's duplicate removal: first occurrences, in order.
Unique(relation_sets_) ==
    IF relation_sets_ = <<>> THEN <<>>
    ELSE LET front == Unique(SubSeq(relation_sets_, 1, Len(relation_sets_) - 1))
             rel == relation_sets_[Len(relation_sets_)]
         IN  IF rel \in Range(front) THEN front ELSE Append(front, rel)

----------------------------------------------------------------------------
\* Inputs: the first n attribute names (names are opaque to the program, so
\* one attribute list per size stands for all of that size) and every list of
\* raw FD records over them within MaxSize that _validate_input accepts.
Init ==
    /\ attributes \in {{AttrSeq[i] : i \in 1..n} : n \in 0..Len(AttrSeq)}
    /\ \E n \in 0..(MaxSize - Cardinality(attributes)) :
        functional_dependencies \in [1..n -> RawFDs(attributes)]
    /\ _validate_input(attributes, functional_dependencies)
    /\ pc = "start"
    /\ caller = "none"
    /\ closure_in = {}
    /\ closure_out = {}
    /\ cover = <<>>
    /\ relation_sets = <<>>
    /\ key_fds = <<>>
    /\ key = {}
    /\ todo = {}
    /\ result_3nf = <<>>
    /\ stack = <<>>
    /\ leaves = <<>>
    /\ result_bcnf = <<>>

\* A direct call _closure(S, fds) on the normalized input.
CallClosure ==
    /\ pc = "start"
    /\ \E S \in SUBSET attributes :
        /\ closure_in' = S
        /\ closure_out' = _closure(S, _normalize_fds(functional_dependencies))
    /\ pc' = "closure_done"
    /\ UNCHANGED <<attributes, functional_dependencies, caller, cover,
                   relation_sets, key_fds, key, todo, result_3nf, stack,
                   leaves, result_bcnf>>

\* A direct call _minimal_cover(fds) on the normalized input.
CallMinimalCover ==
    /\ pc = "start"
    /\ cover' = _minimal_cover(_normalize_fds(functional_dependencies))
    /\ pc' = "cover_done"
    /\ UNCHANGED <<attributes, functional_dependencies, caller, closure_in,
                   closure_out, relation_sets, key_fds, key, todo, result_3nf,
                   stack, leaves, result_bcnf>>

\* A direct call _find_key(attributes, fds) on the normalized input.
CallFindKey ==
    /\ pc = "start"
    /\ key_fds' = _normalize_fds(functional_dependencies)
    /\ caller' = "direct"
    /\ pc' = "key_seed"
    /\ UNCHANGED <<attributes, functional_dependencies, closure_in, closure_out,
                   cover, relation_sets, key, todo, result_3nf, stack, leaves,
                   result_bcnf>>

\* After key is assigned in the seed or grow code: the grow loop goes on while
\* key is no superkey, else the shrink loop starts on list(key).
KeyAssigned(k) ==
    /\ key' = k
    /\ IF NotSuperkey(k, attributes, key_fds)
       THEN pc' = "key_grow" /\ todo' = {}
       ELSE pc' = "key_shrink" /\ todo' = k

\* The seed: attributes never on a right side, else an arbitrary attribute.
FindKeySeed ==
    /\ pc = "key_seed"
    /\ LET seed == KeySeed(attributes, key_fds)
       IN  IF seed # {} THEN KeyAssigned(seed)
           ELSE \E a \in attributes : KeyAssigned({a})
    /\ UNCHANGED <<attributes, functional_dependencies, caller, closure_in,
                   closure_out, cover, relation_sets, key_fds, result_3nf,
                   stack, leaves, result_bcnf>>

\* One iteration of the grow loop: an arbitrary missing attribute is added.
FindKeyGrow ==
    /\ pc = "key_grow"
    /\ \E a \in attributes \ _closure(key, key_fds) : KeyAssigned(key \cup {a})
    /\ UNCHANGED <<attributes, functional_dependencies, caller, closure_in,
                   closure_out, cover, relation_sets, key_fds, result_3nf,
                   stack, leaves, result_bcnf>>

\* One iteration of the shrink loop; after the last one _find_key returns.
FindKeyShrink ==
    /\ pc = "key_shrink"
    /\ \E a \in todo :
        /\ key' = ShrinkOne(key, a, attributes, key_fds)
        /\ todo' = todo \ {a}
        /\ pc' = IF todo = {a} THEN "key_done" ELSE "key_shrink"
    /\ UNCHANGED <<attributes, functional_dependencies, caller, closure_in,
                   closure_out, cover, relation_sets, key_fds, result_3nf,
                   stack, leaves, result_bcnf>>

\* solve_3nf up to its call of _find_key: the cover and step 1.
Solve3nfStart ==
    /\ pc = "start"
    /\ LET c == _minimal_cover(_normalize_fds(functional_dependencies))
       IN  /\ cover' = c
           /\ relation_sets' = Step1(c, 1, <<>>, attributes)
           /\ key_fds' = c
    /\ caller' = "solve_3nf"
    /\ pc' = "key_seed"
    /\ UNCHANGED <<attributes, functional_dependencies, closure_in, closure_out,
                   key, todo, result_3nf, stack, leaves, result_bcnf>>

\* solve_3nf after _find_key returned: steps 2 and 3 and the sorted output.
Solve3nfFinish ==
    /\ pc = "key_done"
    /\ caller = "solve_3nf"
    /\ result_3nf' = FormatResult(Step3(Step2(relation_sets, key), 1))
    /\ pc' = "3nf_done"
    /\ caller' = "none"
    /\ cover' = <<>>
    /\ relation_sets' = <<>>
    /\ key_fds' = <<>>
    /\ key' = {}
    /\ todo' = {}
    /\ UNCHANGED <<attributes, functional_dependencies, closure_in, closure_out,
                   stack, leaves, result_bcnf>>

\* main goes on to solve_bcnf, which calls _bcnf_decompose on all attributes.
SolveBcnfStart ==
    /\ pc = "3nf_done"
    /\ stack' = <<Frame(attributes)>>
    /\ leaves' = <<>>
    /\ pc' = "bcnf"
    /\ UNCHANGED <<attributes, functional_dependencies, caller, closure_in,
                   closure_out, cover, relation_sets, key_fds, key, todo,
                   result_3nf, result_bcnf>>

\* The top call finds a violating FD and calls itself on R1.
BcnfSplit ==
    /\ pc = "bcnf"
    /\ Len(stack) < MaxDepth
    /\ LET attrs_set == stack[Len(stack)].attrs
           relevant_fds == RelevantFDs(attrs_set, _normalize_fds(functional_dependencies))
           v == ViolatingFD(attrs_set, relevant_fds)
       IN  /\ v # 0
           /\ LET X == relevant_fds[v].left
                  X_plus == SplitR1(attrs_set, X, relevant_fds)
              IN  stack' = [stack EXCEPT ![Len(stack)] =
                               [attrs |-> attrs_set, stage |-> "res1",
                                R2 |-> SplitR2(attrs_set, X, X_plus)]]
                           \o <<Frame(X_plus)>>
    /\ UNCHANGED <<attributes, functional_dependencies, pc, caller, closure_in,
                   closure_out, cover, relation_sets, key_fds, key, todo,
                   result_3nf, leaves, result_bcnf>>

\* The top call finds a violating FD but the call stack is full: the
\* interpreter raises RecursionError and the program ends without a result.
BcnfRecursionError ==
    /\ pc = "bcnf"
    /\ Len(stack) >= MaxDepth
    /\ LET attrs_set == stack[Len(stack)].attrs
           relevant_fds == RelevantFDs(attrs_set, _normalize_fds(functional_dependencies))
       IN  ViolatingFD(attrs_set, relevant_fds) # 0
    /\ pc' = "RecursionError"
    /\ UNCHANGED <<attributes, functional_dependencies, caller, closure_in,
                   closure_out, cover, relation_sets, key_fds, key, todo,
                   result_3nf, stack, leaves, result_bcnf>>

\* The top call finds no violating FD and returns [attrs_set]; its callers go
\* on, and when the outermost call has returned solve_bcnf removes duplicates,
\* sorts and returns.
BcnfReturn ==
    /\ pc = "bcnf"
    /\ LET attrs_set == stack[Len(stack)].attrs
           relevant_fds == RelevantFDs(attrs_set, _normalize_fds(functional_dependencies))
           s == Unwind(SubSeq(stack, 1, Len(stack) - 1))
           res == Append(leaves, attrs_set)
       IN  /\ ViolatingFD(attrs_set, relevant_fds) = 0
           /\ stack' = s
           /\ leaves' = res
           /\ IF s = <<>>
              THEN pc' = "done" /\ result_bcnf' = FormatResult(Unique(res))
              ELSE pc' = "bcnf" /\ result_bcnf' = result_bcnf
    /\ UNCHANGED <<attributes, functional_dependencies, caller, closure_in,
                   closure_out, cover, relation_sets, key_fds, key, todo,
                   result_3nf>>

\* main: solve_3nf, then solve_bcnf, on the validated input.
Next ==
    \/ Solve3nfStart
    \/ FindKeySeed
    \/ FindKeyGrow
    \/ FindKeyShrink
    \/ Solve3nfFinish
    \/ SolveBcnfStart
    \/ BcnfSplit
    \/ BcnfRecursionError
    \/ BcnfReturn

Spec == Init /\ [][Next]_vars

NextKey == CallFindKey \/ FindKeySeed \/ FindKeyGrow \/ FindKeyShrink

SpecKey == Init /\ [][NextKey]_vars

NextClosure == CallClosure

SpecClosure == Init /\ [][NextClosure]_vars

NextCover == CallMinimalCover

SpecCover == Init /\ [][NextCover]_vars

----------------------------------------------------------------------------
\* Properties of _closure and _minimal_cover.

\* The normalized input FDs.
InputFDs == _normalize_fds(functional_dependencies)

\* T is closed under every FD of fds.
ClosedUnder(T, fds) ==
    \A i \in 1..Len(fds) : fds[i].left \subseteq T => fds[i].right \in T

\* fds in the order given by the permutation p of its indices.
Permuted(fds, p) == [i \in 1..Len(fds) |-> fds[p[i]]]

RECURSIVE IsSubSeq(_, _)
\* s is t with some elements deleted.
IsSubSeq(s, t) ==
    IF s = <<>> THEN TRUE
    ELSE IF t = <<>> THEN FALSE
    ELSE IF Head(s) = Head(t) THEN IsSubSeq(Tail(s), Tail(t))
    ELSE IsSubSeq(s, Tail(t))

\* C9: the set _closure(attrs, fds) returns contains attrs, is closed under
\* every FD of fds, is contained in every closed superset of attrs (it is the
\* least one), is the same for every permutation of fds, and is returned
\* unchanged when _closure is applied to it again.
C9_ClosureLeastFixedPoint ==
    pc = "closure_done" =>
        /\ closure_in \subseteq closure_out
        /\ ClosedUnder(closure_out, InputFDs)
        /\ \A T \in SUBSET attributes :
            (closure_in \subseteq T /\ ClosedUnder(T, InputFDs)) => closure_out \subseteq T
        /\ \A p \in Permutations(1..Len(InputFDs)) :
            _closure(closure_in, Permuted(InputFDs, p)) = closure_out
        /\ _closure(closure_out, InputFDs) = closure_out

\* A call whose answer needs a second scan: the FD that adds the last
\* attribute comes before the FD that enables it.
C9_Witness ==
    /\ pc = "closure_done"
    /\ Len(InputFDs) >= 2
    /\ ClosureScan(closure_in, InputFDs, 1)[1] # closure_out
    /\ closure_out # attributes

\* C7: _minimal_cover returns a sub-sequence of its input in which no FD is
\* redundant: the right attribute of each returned FD is outside the closure
\* of its left side over the other returned FDs.
C7_CoverNoRedundantMember ==
    pc = "cover_done" =>
        /\ IsSubSeq(cover, InputFDs)
        /\ \A i \in 1..Len(cover) :
            cover[i].right \notin _closure(cover[i].left, RemoveAt(cover, i))

\* The first FD was tested and kept, and a later FD was removed.
C7_Witness ==
    /\ pc = "cover_done"
    /\ Len(InputFDs) >= 2
    /\ InputFDs[1].right \notin _closure(InputFDs[1].left, Tail(InputFDs))
    /\ Len(cover) < Len(InputFDs)
    /\ cover[1] = InputFDs[1]

\* C8: the list _minimal_cover returns is equivalent to its input: every
\* attribute subset has the same closure over both lists.
C8_CoverEquivalent ==
    pc = "cover_done" =>
        \A S \in SUBSET attributes : _closure(S, cover) = _closure(S, InputFDs)

\* Two FDs were removed in sequence and some non-trivial FD remains.
C8_Witness ==
    /\ pc = "cover_done"
    /\ Len(cover) + 2 <= Len(InputFDs)
    /\ \E S \in SUBSET attributes : _closure(S, cover) # S

\* C6: the set _find_key returns is a superkey, and removing any one of its
\* attributes leaves a set that is no superkey, whichever attributes the seed
\* fallback and the grow step took and in whichever order the shrink pass ran.
C6_KeyMinimal ==
    pc = "key_done" =>
        /\ _closure(key, key_fds) = attributes
        /\ \A a \in key : _closure(key \ {a}, key_fds) # attributes

\* A returned key that the fallback started and the grow step extended.
C6_Witness ==
    /\ pc = "key_done"
    /\ KeySeed(attributes, key_fds) = {}
    /\ Cardinality(key) >= 2

----------------------------------------------------------------------------
\* Properties of solve_3nf and solve_bcnf.

\* The relations of a returned list, as sets.
Relations(result) == {Range(result[i]) : i \in 1..Len(result)}

\* solve_3nf has returned.
Returned3nf == pc \in {"3nf_done", "bcnf", "done", "RecursionError"}

\* No relation of the list is contained in a different relation of the list.
NoSubsetPair(result) ==
    \A i, j \in 1..Len(result) :
        i # j => ~(Range(result[i]) \subseteq Range(result[j]))

\* The minimal keys of relation R under the FDs implied by fds.
MinimalKeys(R, fds) ==
    {K \in SUBSET R :
        /\ R \subseteq _closure(K, fds)
        /\ \A a \in K : ~(R \subseteq _closure(K \ {a}, fds))}

\* R is in Third Normal Form under the FDs implied by fds.
Is3NF(R, fds) ==
    \A X \in SUBSET R : \A a \in R \ X :
        a \in _closure(X, fds) =>
            \/ R \subseteq _closure(X, fds)
            \/ \E K \in MinimalKeys(R, fds) : a \in K

\* C1: solve_bcnf terminates on every validated schema: each call of
\* _bcnf_decompose made by another call receives a strict subset of its
\* caller's attribute set, the call stack is never deeper than the number of
\* attributes, and no RecursionError is raised.
C1_BcnfRecursionShrinks ==
    /\ pc # "RecursionError"
    /\ Len(stack) <= Cardinality(attributes)
    /\ \A i \in 2..Len(stack) :
        stack[i].attrs \subseteq stack[i - 1].attrs /\ stack[i].attrs # stack[i - 1].attrs

\* C2: in the list solve_3nf returns and in the list solve_bcnf returns, no
\* relation is a subset of a different relation of the same list.
C2_NoRelationInsideAnother ==
    /\ Returned3nf => NoSubsetPair(result_3nf)
    /\ pc = "done" => NoSubsetPair(result_bcnf)

\* C3: every relation solve_3nf returns is in Third Normal Form with respect
\* to the input FDs: an implied FD X -> a inside the relation, a not in X, has
\* X a superkey of the relation or a in some minimal key of the relation.
C3_ThirdNormalForm ==
    pc = "3nf_done" => \A R \in Relations(result_3nf) : Is3NF(R, InputFDs)

\* C4: for every relation R solve_bcnf returns and every input FD inside R,
\* the closure of the FD's left side over the input FDs inside R contains R.
C4_BcnfProperty ==
    pc = "done" =>
        \A R \in Relations(result_bcnf) :
            LET inside == RelevantFDs(R, InputFDs)
            IN  \A i \in 1..Len(inside) : R \subseteq _closure(inside[i].left, inside)

\* A returned decomposition of several relations, one of them holding an FD
\* whose right attribute is not in its left side.
C4_Witness ==
    /\ pc = "done"
    /\ Len(result_bcnf) >= 3
    /\ \E R \in Relations(result_bcnf) :
        LET inside == RelevantFDs(R, InputFDs)
        IN  \E i \in 1..Len(inside) : inside[i].right \notin inside[i].left

\* C5: the union of the relations solve_3nf returns is the input attribute
\* set, and so is the union of the relations solve_bcnf returns.
C5_NoAttributeLost ==
    /\ Returned3nf => UNION Relations(result_3nf) = attributes
    /\ pc = "done" => UNION Relations(result_bcnf) = attributes

\* Both lists returned, for a schema with an attribute that is in no FD and
\* an attribute that is only in FDs the cover reduction dropped.
C5_Witness ==
    /\ pc = "done"
    /\ Len(result_bcnf) >= 2
    /\ Len(result_3nf) >= 2
    /\ \E a \in attributes :
        \A i \in 1..Len(InputFDs) : a \notin InputFDs[i].left \cup {InputFDs[i].right}
    /\ LET c == _minimal_cover(InputFDs)
       IN  \E b \in attributes :
            /\ \E i \in 1..Len(InputFDs) : b \in InputFDs[i].left \cup {InputFDs[i].right}
            /\ \A i \in 1..Len(c) : b \notin c[i].left \cup {c[i].right}

----------------------------------------------------------------------------
\* solve_3nf with every arbitrary pick of _find_key resolved one fixed way:
\* the smallest attribute first.

MinAttr(S) == CHOOSE x \in S : \A y \in S : AttrOrd(x) <= AttrOrd(y)

RECURSIVE GrowSmallestFirst(_, _, _)
GrowSmallestFirst(key_, attrs_set, fds) ==
    IF NotSuperkey(key_, attrs_set, fds)
    THEN GrowSmallestFirst(key_ \cup {MinAttr(attrs_set \ _closure(key_, fds))},
                           attrs_set, fds)
    ELSE key_

RECURSIVE ShrinkInOrder(_, _, _, _)
ShrinkInOrder(key_, order, attrs_set, fds) ==
    IF order = <<>> THEN key_
    ELSE ShrinkInOrder(ShrinkOne(key_, Head(order), attrs_set, fds), Tail(order),
                       attrs_set, fds)

FindKeySmallestFirst(attrs_set, fds) ==
    LET seed == KeySeed(attrs_set, fds)
        grown == GrowSmallestFirst(IF seed = {} THEN {MinAttr(attrs_set)} ELSE seed,
                                   attrs_set, fds)
    IN  ShrinkInOrder(grown, SortedAttrs(grown), attrs_set, fds)

Solve3nfSmallestFirst(attrs_set, fds) ==
    LET c == _minimal_cover(fds)
    IN  FormatResult(Step3(Step2(Step1(c, 1, <<>>, attrs_set),
                                 FindKeySmallestFirst(attrs_set, c)), 1))

\* C10: the list solve_3nf returns depends on the input alone: whatever
\* attributes the seed fallback and the grow step take and in whatever order
\* the shrink pass runs, the list is the one the smallest-first run returns.
C10_OutputDetermined ==
    pc = "3nf_done" => result_3nf = Solve3nfSmallestFirst(attributes, InputFDs)

====
